---------------------------- MODULE Spec2Model ----------------------------
(***************************************************************************)
(* Chorus portal: the Studio pipeline executor (portal/js/studio.js), the *)
(* API object (portal/js/config.js: discover, sendJob, transfer), the hire *)
(* dialog of the portal app (executeHireJob, retryLastJob, jobHistory),    *)
(* its session and ledger pages (login, logout, refreshDashboard,          *)
(* refreshWallet, API.getBalance, API.getAudit), the ledger behind         *)
(* transfer_credits and the reputation algorithm of PROTOCOL_SPEC.md.      *)
(*                                                                         *)
(* executePipeline is an async function: every `await` is a point where    *)
(* other handlers (a second executePipeline, the canvas editor) may run.   *)
(* Each action below is the code between two awaits.                       *)
(***************************************************************************)
EXTENDS Integers, Sequences, FiniteSets, TLC

(* ------------------------------ bounds --------------------------------- *)

\* Longest connection list the editor is allowed to build.
MaxConns == 3

\* Step numbers above MaxSteps are not told apart, and a run's trace keeps
\* its first MaxSteps sendJob calls.
MaxSteps == 3

\* Job requests the hire dialog posts.
MaxJobs == 2

\* Rows of a directory whose contents are enumerated.
MaxAgents == 2

\* Calls of one page's refresh that may be waiting for their answers.
MaxPending == 1

(* ----------------------------- constants ------------------------------- *)

Null == "null"

\* Two slots for executions of executePipeline that may overlap in time.
Runs == {"r1", "r2"}

\* Node ids: 'a' and 'b' are created by init; addNode draws a random id.
NodeIds == {"a", "b", "c"}

\* Labels are sequences of words; String.includes is "contiguous subsequence".
LabelA == <<"Agent", "A">>

LabelB == <<"Agent", "B">>

PaletteLabels == {<<"Echo", "Bot">>}

\* Rows of the `agents` table that discover() reads.
AgentsTable ==
    << [id |-> "ag1", name |-> <<"Agent">>, owner_id |-> "owner1",
        endpoint |-> "https://agent1", skill |-> "summarize",
        reputation_score |-> 50, cost_per_call |-> 5],
       [id |-> "ag2", name |-> <<"Echo", "Bot">>, owner_id |-> "owner2",
        endpoint |-> "https://echo", skill |-> "echo",
        reputation_score |-> 70, cost_per_call |-> 0] >>

\* Text typed into #run-input.
RawInputs == {"hello", "{k:1}"}

\* output_data and execution_cost of a SUCCESS answer: the agent behind a
\* node answers with its own output; the agents of 'a' and 'c' charge.
OutputOf(node) == <<"out", node>>

CostOf(node) == IF node = "b" THEN 0 ELSE 5

Undefined == <<"undefined">>

\* Texts of #pipeline-output.
Blank == <<"text", "">>

Ejecutando == <<"text", "Ejecutando...">>

PipelineFailed == <<"text", "Pipeline Failed">>

\* JSON.stringify(currentInput, null, 2)
Stringify(v) == <<"json", v>>

\* budget argument of the pipeline's sendJob call.
PipelineBudget == 10

VARIABLES
    nodes,        \* studio.nodes: sequence of [id, label, status]
    connections,  \* studio.connections: sequence of [from, to]
    wiringState,  \* studio.wiringState: Null or the source node id
    nodeIdBound,  \* whether the free identifier `nodeId` read by drawNode resolves
    steps,        \* ids N of the #step-N elements inside #pipeline-steps
    finalOutput,  \* innerText of #pipeline-output
    run,          \* per execution of executePipeline: its locals and position
    inflight,     \* fetch requests sent and not yet answered, oldest first
    transfers     \* ledger transfers ordered through API.transfer

VARIABLES
    directory,     \* rows of the `agents` table
    discoverCall,  \* the last API.discover call and what it returned
    user,          \* state.user: Null or the owner id of the logged-in user
    hire,          \* per execution of executeHireJob / retryLastJob: locals and position
    btnDisabled,   \* #btn-send-job.disabled
    retryShown,    \* a "Reintentar" button is in the chat
    lastJobParams, \* lastJobParams
    jobSeq,        \* number of job requests the hire dialog has posted
    balance,       \* ledger_accounts.balance per owner
    txlog,         \* rows of the `transactions` table, oldest first
    repUpdates,    \* reputation updates ordered by the portal
    score,         \* reputation_score of one agent, in units of 1/Scale
    jobHistory,    \* jobHistory: records of hire jobs, newest first
    dispatched,    \* history: arguments of executeHireJob's last API.sendJob call
    stateBalance,  \* state.balance
    connected,     \* state.connected
    refreshing,    \* per page: refreshDashboard / refreshWallet calls not yet resumed
    recent,        \* #recent-transactions as the last refreshDashboard rendered it
    auditCall      \* the last API.getAudit call and what it returned

portalVars == <<directory, discoverCall, user, hire, btnDisabled, retryShown,
                lastJobParams, jobSeq, balance, txlog, repUpdates, score,
                jobHistory, dispatched, stateBalance, connected, refreshing,
                recent, auditCall>>

studioVars == <<nodes, connections, wiringState, nodeIdBound, steps, finalOutput,
                run, inflight>>

vars == <<nodes, connections, wiringState, nodeIdBound, steps, finalOutput,
          run, inflight, transfers, portalVars>>


(* ------------------------- studio.js helpers --------------------------- *)

Range(f) == {f[i] : i \in DOMAIN f}

NodeIdsOf(ns) == {ns[i].id : i \in DOMAIN ns}

\* this.nodes.find(n => n.id === id); Null when there is none.
FindNode(ns, id) ==
    IF \E i \in DOMAIN ns : ns[i].id = id
    THEN ns[CHOOSE i \in DOMAIN ns :
                /\ ns[i].id = id
                /\ \A j \in 1..(i - 1) : ns[j].id # id].id
    ELSE Null

StatusOf(ns, id) ==
    LET i == CHOOSE k \in DOMAIN ns : ns[k].id = id IN ns[i].status

\* currentNode.status = s, on the node object held in this.nodes.
SetStatus(ns, id, s) ==
    [i \in DOMAIN ns |-> IF ns[i].id = id THEN [ns[i] EXCEPT !.status = s] ELSE ns[i]]

\* inputRaw.trim().startsWith('{')
StartsWithBrace(raw) == raw \in {"{k:1}", "{oops"}

\* JSON.parse(inputRaw): the parsed value; `threw` when it throws SyntaxError.
JSONParse(raw) ==
    IF raw = "{k:1}"
    THEN [threw |-> FALSE, value |-> <<"obj", "k1">>]
    ELSE [threw |-> TRUE, value |-> Undefined]

\* executePipeline, step 1: the run's inputData.
ParseInput(raw) ==
    IF StartsWithBrace(raw) /\ ~JSONParse(raw).threw
    THEN JSONParse(raw).value
    ELSE <<"text", raw>>

\* this.connections.some(c => c.to === id)
HasIncoming(conns, id) == \E i \in DOMAIN conns : conns[i].to = id

\* A getStartNode that falls back to the first node of this.nodes.
getStartNodeOrFirst(ns, conns) ==
    IF \E i \in DOMAIN ns : ~HasIncoming(conns, ns[i].id)
    THEN ns[CHOOSE i \in DOMAIN ns :
                /\ ~HasIncoming(conns, ns[i].id)
                /\ \A j \in 1..(i - 1) : HasIncoming(conns, ns[j].id)].id
    ELSE IF Len(ns) > 0 THEN ns[1].id ELSE Null

\* getStartNode: the first node of this.nodes without an incoming connection.
getStartNode(ns, conns) ==
    IF \E i \in DOMAIN ns : ~HasIncoming(conns, ns[i].id)
    THEN ns[CHOOSE i \in DOMAIN ns :
                /\ ~HasIncoming(conns, ns[i].id)
                /\ \A j \in 1..(i - 1) : HasIncoming(conns, ns[j].id)].id
    ELSE Null

\* resetExecutionState: delete n.status on every node.
resetExecutionState(ns) == [i \in DOMAIN ns |-> [ns[i] EXCEPT !.status = Null]]

\* "Find Next Node": the target of the first connection leaving `id`, looked
\* up in this.nodes; Null at the end of the line.
NextNode(ns, conns, id) ==
    IF \E i \in DOMAIN conns : conns[i].from = id
    THEN FindNode(ns, conns[CHOOSE i \in DOMAIN conns :
                                /\ conns[i].from = id
                                /\ \A j \in 1..(i - 1) : conns[j].from # id].to)
    ELSE Null

\* String.prototype.includes on labels.
Includes(label, name) ==
    \E i \in 1..(Len(label) + 1) :
        /\ i + Len(name) - 1 <= Len(label)
        /\ SubSeq(label, i, i + Len(name) - 1) = name

(* ------------------------- config.js: API ------------------------------ *)

\* `if (skill)`: null, undefined and '' are falsy.
Truthy(skill) == skill \notin {Null, ""}

\* A discover that forgets .gte('reputation_score', minRep).
discoverAnyReputation(table, skill, minRep, dbError) ==
    IF dbError
    THEN [agents |-> <<>>, total |-> 0]
    ELSE LET data   == SelectSeq(table, LAMBDA a : Truthy(skill) => a.skill = skill)
             mapped == [i \in DOMAIN data |->
                          [agent_id |-> data[i].id,
                           agent_name |-> data[i].name,
                           owner_id |-> data[i].owner_id,
                           api_endpoint |-> data[i].endpoint,
                           reputation_score |-> data[i].reputation_score,
                           skills |-> << [skill_name |-> data[i].skill,
                                          cost_per_call |-> data[i].cost_per_call] >>]]
         IN [agents |-> mapped, total |-> Len(mapped)]

\* API.discover(skill, minRep); dbError is the outcome of the query.
discover(table, skill, minRep, dbError) ==
    IF dbError
    THEN [agents |-> <<>>, total |-> 0]
    ELSE LET Match(a) == /\ a.reputation_score >= minRep
                         /\ (Truthy(skill) => a.skill = skill)
             data   == SelectSeq(table, Match)
             mapped == [i \in DOMAIN data |->
                          [agent_id |-> data[i].id,
                           agent_name |-> data[i].name,
                           owner_id |-> data[i].owner_id,
                           api_endpoint |-> data[i].endpoint,
                           reputation_score |-> data[i].reputation_score,
                           skills |-> << [skill_name |-> data[i].skill,
                                          cost_per_call |-> data[i].cost_per_call] >>]]
         IN [agents |-> mapped, total |-> Len(mapped)]

\* JSON bodies an agent endpoint may answer with.
SuccessBody(out, cost) ==
    [isObject |-> TRUE, status |-> "SUCCESS", output_data |-> out,
     execution_cost |-> cost, error_message |-> Null]

FailureBody(msg) ==
    [isObject |-> TRUE, status |-> "FAILURE", output_data |-> Undefined,
     execution_cost |-> 0, error_message |-> msg]

NullBody ==
    [isObject |-> FALSE, status |-> Null, output_data |-> Undefined,
     execution_cost |-> 0, error_message |-> Null]

Bodies(node) ==
    {SuccessBody(OutputOf(node), CostOf(node)),
     FailureBody("agent error"), FailureBody(Null), NullBody}

\* What fetch() and response.json() may do for the job of `node`.
NetOutcomes(node) ==
    {[kind |-> "reject", ok |-> FALSE, parses |-> FALSE, body |-> NullBody],
     [kind |-> "http", ok |-> FALSE, parses |-> FALSE, body |-> NullBody],
     [kind |-> "http", ok |-> TRUE, parses |-> FALSE, body |-> NullBody]}
    \cup {[kind |-> "http", ok |-> TRUE, parses |-> TRUE, body |-> b] : b \in Bodies(node)}

\* What supabase.auth.getSession() may do.
SessionOutcomes == {"session", "nosession", "throws"}

\* sendJob from the fetch on: try { fetch; !ok -> throw; json } catch -> FAILURE.
sendJobAfterFetch(net) ==
    IF net.kind = "reject" THEN FailureBody("Failed to fetch")
    ELSE IF ~net.ok THEN FailureBody("HTTP 500")
    ELSE IF ~net.parses THEN FailureBody("Unexpected token")
    ELSE net.body

\* API.sendJob as its caller sees it: a returned value or a rejection.
sendJob(sess, net) ==
    IF sess = "throws"
    THEN [kind |-> "threw", value |-> NullBody]
    ELSE [kind |-> "returned", value |-> sendJobAfterFetch(net)]


(* --------------------- studio.js: executePipeline ---------------------- *)

\* Lines 219-244: endpoint and skill of the job for a node with this label.
ResolveAgent(label, agents) ==
    LET Matches(a) == a.agent_name = label \/ Includes(label, a.agent_name)
        found      == SelectSeq(agents, Matches)
        byLabel    ==
            IF Includes(label, <<"Echo">>)
            THEN [endpoint |-> "http://localhost:54321", skill |-> "echo"]
            ELSE IF Includes(label, <<"Calc">>)
            THEN [endpoint |-> "http://localhost:54321", skill |-> "calculator"]
            ELSE [endpoint |-> "http://localhost:8000", skill |-> "unknown"]
    IN IF Len(found) > 0
       THEN [endpoint |-> found[1].api_endpoint,
             skill |-> found[1].skills[1].skill_name]
       ELSE byLabel

LabelOf(ns, id) ==
    LET i == CHOOSE k \in DOMAIN ns : ns[k].id = id IN ns[i].label

Ended == {"idle", "rejected", "succeeded", "failed"}

Awaiting == {"discover", "getSession", "fetch", "delay"}

\* The nodes a run started at `id` visits on this graph if every job
\* succeeds, cut after k nodes.
RECURSIVE Walk(_, _, _, _)
Walk(ns, conns, id, k) ==
    IF id = Null \/ k = 0
    THEN <<>>
    ELSE <<id>> \o Walk(ns, conns, NextNode(ns, conns, id), k - 1)

\* Locals of one execution of executePipeline.  `trace` (the sendJob calls
\* made so far) and `nodes0`, `connections0` (the graph as it was when the
\* execution started) are history kept for the properties; the code does
\* not read them.
IdleRun ==
    [pc |-> "idle", inputData |-> Undefined, currentNode |-> Null,
     currentInput |-> Undefined, stepCount |-> 1, endpoint |-> Null,
     skill |-> Null, trace |-> <<>>, nodes0 |-> <<>>, connections0 |-> <<>>]

\* stepCount++
NextStep(n) == IF n < MaxSteps THEN n + 1 ELSE n

\* The trace keeps the first MaxSteps sendJob calls of a run.
TraceAdd(tr, e) == IF Len(tr) < MaxSteps THEN Append(tr, e) ELSE tr

HasPending(tr) == Len(tr) > 0 /\ tr[Len(tr)].outcome = "pending"

\* How executePipeline reads a value returned by sendJob.
OutcomeOf(result) ==
    IF ~result.isObject THEN "INVALID"
    ELSE IF result.status = "SUCCESS" THEN "SUCCESS"
    ELSE "FAILURE"

TraceSettle(tr, result) ==
    IF HasPending(tr)
    THEN [tr EXCEPT ![Len(tr)].outcome = OutcomeOf(result),
                    ![Len(tr)].output = result.output_data,
                    ![Len(tr)].cost = result.execution_cost]
    ELSE tr

\* Head of the while loop (lines 191-238) for a run whose currentNode is set:
\* mark the node running, add its step element, call api.discover.
LoopHead(r, rec, ns, st) ==
    /\ nodes' = SetStatus(ns, rec.currentNode, "running")
    /\ steps' = st \cup {rec.stepCount}
    /\ run' = [run EXCEPT ![r] = [rec EXCEPT !.pc = "discover"]]

\* A new execution takes the first free slot.
FreeSlot(r) ==
    /\ run[r].pc \in Ended
    /\ (r = "r2" => run["r1"].pc \notin Ended)

\* Click on #btn-confirm-run: executePipeline up to its first await.
ExecutePipeline(r, raw) ==
    LET startNode == getStartNode(nodes, connections)
        rec == [IdleRun EXCEPT !.inputData = ParseInput(raw),
                               !.currentNode = startNode,
                               !.currentInput = ParseInput(raw),
                               !.nodes0 = [i \in DOMAIN nodes |-> [id |-> nodes[i].id]],
                               !.connections0 = connections]
    IN /\ FreeSlot(r)
       /\ IF startNode = Null
          THEN \* alert("No hay nodos para ejecutar."); return
               /\ run' = [run EXCEPT ![r] = [rec EXCEPT !.pc = "rejected"]]
               /\ UNCHANGED <<nodes, steps, finalOutput>>
          ELSE /\ finalOutput' = Ejecutando
               /\ IF ~nodeIdBound
                  THEN \* resetExecutionState -> render -> drawNode throws
                       /\ nodes' = resetExecutionState(nodes)
                       /\ steps' = {}
                       /\ run' = [run EXCEPT ![r] = [rec EXCEPT !.pc = "failed"]]
                  ELSE LoopHead(r, rec, resetExecutionState(nodes), {})
       /\ UNCHANGED <<connections, wiringState, nodeIdBound, inflight, transfers, portalVars>>

\* api.discover(null) resolves: pick the endpoint, call api.sendJob, which
\* awaits supabase.auth.getSession().
DiscoverReturn(r, dbError) ==
    LET rec == run[r]
        res == ResolveAgent(LabelOf(nodes, rec.currentNode),
                            discover(directory, Null, 0, dbError).agents)
    IN /\ rec.pc = "discover"
       /\ run' = [run EXCEPT ![r] = [rec EXCEPT !.pc = "getSession",
                                                !.endpoint = res.endpoint,
                                                !.skill = res.skill]]
       /\ UNCHANGED <<nodes, connections, wiringState, nodeIdBound, steps,
                      finalOutput, inflight, transfers, portalVars>>

\* The request sendJob posts to `${agentEndpoint}/jobs`.
JobOf(r, rec) ==
    [run |-> r, step |-> rec.stepCount, node |-> rec.currentNode,
     endpoint |-> rec.endpoint, skill_name |-> rec.skill,
     input_data |-> rec.currentInput, budget |-> PipelineBudget]

\* The oldest request equal to `job` is answered.
Answered(jobs, job) ==
    IF \E i \in DOMAIN jobs : jobs[i] = job
    THEN LET k == CHOOSE i \in DOMAIN jobs :
                      jobs[i] = job /\ \A j \in 1..(i - 1) : jobs[j] # job
         IN SubSeq(jobs, 1, k - 1) \o SubSeq(jobs, k + 1, Len(jobs))
    ELSE jobs

\* sendJob called without `await`: the loop goes on to its delay at once.
NoAwaitSendJob == "delay"

\* `const result = await api.sendJob(...)`: executePipeline is suspended on
\* the promise until the answer is in.
AwaitSendJob == "fetch"

CallOf(rec, sent, outcome) ==
    [node |-> rec.currentNode, input |-> rec.currentInput, sent |-> sent,
     outcome |-> outcome, output |-> Undefined, cost |-> 0]

\* A catch block without its `return`: the loop goes on with the next node.
CatchBlockNoReturn(r, rec, tr) ==
    /\ nodes' = SetStatus(nodes, rec.currentNode, "error")
    /\ finalOutput' = IF rec.stepCount \in steps THEN PipelineFailed ELSE finalOutput
    /\ run' = [run EXCEPT ![r] =
                 [rec EXCEPT !.pc = "delay",
                             !.trace = tr,
                             !.currentNode =
                                 NextNode(nodes, connections, rec.currentNode)]]
    /\ UNCHANGED steps

\* catch (err) of executePipeline, lines 264-271.
CatchBlock(r, rec, tr) ==
    /\ nodes' = SetStatus(nodes, rec.currentNode, "error")
    /\ finalOutput' = IF rec.stepCount \in steps THEN PipelineFailed ELSE finalOutput
    /\ run' = [run EXCEPT ![r] = [rec EXCEPT !.pc = "failed", !.trace = tr]]
    /\ UNCHANGED steps

\* getSession settles inside sendJob: the fetch goes out, or sendJob rejects.
SessionReturn(r, sess) ==
    LET rec == run[r]
        net == CHOOSE n \in NetOutcomes(rec.currentNode) : TRUE
    IN /\ rec.pc = "getSession"
       /\ IF sendJob(sess, net).kind = "threw"
          THEN /\ CatchBlock(r, rec, TraceAdd(rec.trace, CallOf(rec, FALSE, "THREW")))
               /\ UNCHANGED inflight
          ELSE /\ inflight' = Append(inflight, JobOf(r, rec))
               /\ run' = [run EXCEPT ![r] =
                            [rec EXCEPT !.pc = AwaitSendJob,
                                        !.trace = TraceAdd(rec.trace,
                                                           CallOf(rec, TRUE, "pending"))]]
               /\ UNCHANGED <<nodes, steps, finalOutput>>
       /\ UNCHANGED <<connections, wiringState, nodeIdBound, transfers, portalVars>>

\* The fetch settles and sendJob returns; lines 250-285 up to the delay.
FetchReturn(r, net) ==
    LET rec    == run[r]
        result == sendJob("session", net).value
        tr     == TraceSettle(rec.trace, result)
        stepEl == rec.stepCount \in steps
    IN /\ rec.pc = "fetch"
       /\ net \in NetOutcomes(rec.currentNode)
       /\ inflight' = Answered(inflight, JobOf(r, rec))
       /\ IF OutcomeOf(result) = "SUCCESS"
          THEN IF stepEl
               THEN /\ nodes' = SetStatus(nodes, rec.currentNode, "success")
                    /\ run' = [run EXCEPT ![r] =
                                 [rec EXCEPT !.pc = "delay",
                                             !.trace = tr,
                                             !.currentInput = result.output_data,
                                             !.stepCount = NextStep(rec.stepCount),
                                             !.currentNode =
                                                 NextNode(nodes, connections, rec.currentNode)]]
                    /\ UNCHANGED <<steps, finalOutput>>
               ELSE \* stepEl is null: TypeError after the two assignments
                    CatchBlock(r, [rec EXCEPT !.currentInput = result.output_data], tr)
          ELSE CatchBlock(r, rec, tr)
       /\ UNCHANGED <<connections, wiringState, nodeIdBound, transfers, portalVars>>

\* The 1000 ms timer fires: next iteration of the loop, or the end of the run.
DelayReturn(r) ==
    LET rec == run[r]
    IN /\ rec.pc = "delay"
       /\ IF rec.currentNode # Null
          THEN /\ LoopHead(r, rec, nodes, steps)
               /\ UNCHANGED finalOutput
          ELSE /\ finalOutput' = Stringify(rec.currentInput)
               /\ run' = [run EXCEPT ![r] = [rec EXCEPT !.pc = "succeeded"]]
               /\ UNCHANGED <<nodes, steps>>
       /\ UNCHANGED <<connections, wiringState, nodeIdBound, inflight, transfers, portalVars>>

(* ------------------------ studio.js: the editor ------------------------ *)

\* mousedown on the output port of node `id` (getNodeAtPort(..., 'output')).
HandleMouseDown(id) ==
    /\ id \in NodeIdsOf(nodes)
    /\ wiringState' = id
    /\ UNCHANGED <<nodes, connections, nodeIdBound, steps, finalOutput, run,
                   inflight, transfers, portalVars>>

\* mouseup / mouseleave; `target` is the node whose input port is hit, or Null.
HandleMouseUp(target) ==
    /\ target \in NodeIdsOf(nodes) \cup {Null}
    /\ wiringState # Null
    /\ Len(connections) < MaxConns
    /\ connections' =
         IF target # Null /\ target # wiringState
         THEN Append(connections, [from |-> wiringState, to |-> target])
         ELSE connections
    /\ wiringState' = Null
    /\ UNCHANGED <<nodes, nodeIdBound, steps, finalOutput, run, inflight, transfers, portalVars>>

\* addNode(x, y, label, type, price) with the random id it draws.
addNode(id, label) ==
    /\ nodes' = Append(nodes, [id |-> id, label |-> label, status |-> Null])
    /\ UNCHANGED <<connections, wiringState, nodeIdBound, steps, finalOutput, run,
                   inflight, transfers, portalVars>>

\* drop of a palette item on the canvas.
HandleDrop(id, label) ==
    /\ id \in NodeIds \ NodeIdsOf(nodes)
    /\ label \in PaletteLabels
    /\ addNode(id, label)

(* ------------------- config.js: API.transfer, the ledger --------------- *)

\* Owners with a ledger account: the logged-in user and the agents' owners.
Owners == {"u1", "owner1", "owner2"}

\* What the user of this model holds when the portal opens.
InitialBalance == [o \in Owners |-> IF o = "u1" THEN 7 ELSE 0]

\* Transport outcome of a supabase.rpc call: the function ran, or the
\* request never reached the database.
RpcOutcomes == {"executed", "neterror"}

\* A check against the balance read when the call was made.
StaleSenderBalance(bal, seen, from) == seen

\* The balance the debit is checked against: the sender's balance at the
\* moment transfer_credits runs (`seen` is the balance when the call was made).
SenderBalance(bal, seen, from) == bal[from]

\* The database function transfer_credits: verify, debit, credit and log in
\* one transaction, or fail without effect.
transfer_credits(bal, log, seen, from, to, amount, jobId) ==
    IF amount <= 0
    THEN [error |-> "InvalidAmount", balance |-> bal, log |-> log]
    ELSE IF SenderBalance(bal, seen, from) < amount
    THEN [error |-> "InsufficientCredits", balance |-> bal, log |-> log]
    ELSE [error |-> Null,
          balance |-> [o \in Owners |->
                          bal[o] - (IF o = from THEN amount ELSE 0)
                                 + (IF o = to THEN amount ELSE 0)],
          log |-> Append(log, [from_account_id |-> from, to_account_id |-> to,
                               amount |-> amount, job_id |-> jobId])]

\* API.transfer always reports success, whatever the rpc answered.
transferIgnoresError(error) == [success |-> TRUE, error |-> Null]

\* API.transfer(fromOwner, toOwner, amount, jobId) from the rpc's answer on.
transfer(error) ==
    IF error # Null
    THEN [success |-> FALSE, error |-> error]
    ELSE [success |-> TRUE, error |-> Null]

(* ------------------ PROTOCOL_SPEC.md: reputation algorithm ------------- *)

\* Scores are kept in units of 1/Scale, so that weight * c / 100 is whole
\* for every whole contractor_reputation c.
Scale == 50

\* weight = 2.0 (base reward)
Weight == 2

\* penalty = 3.0, and failures cost penalty * 1.5
PenaltyTimesScale == 3 * Scale

\* "New agents start at score 50.0"
NewAgentScore == 50 * Scale

MaxScore == 100 * Scale

ContractorReputations == {0, 1, 50, 80, 100}

InitialScores == {2 * Scale, NewAgentScore, 99 * Scale}

Clamp(x) == IF x < 0 THEN 0 ELSE IF x > MaxScore THEN MaxScore ELSE x

\* An update that forgets the clamp.
NewScoreUnclamped(old, outcome, contractorReputation) ==
    IF outcome = "SUCCESS"
    THEN old + (Weight * contractorReputation * Scale) \div 100
    ELSE old - (PenaltyTimesScale * 3) \div 2

\* new_score after SUCCESS or FAILURE, clamped to [0.0, 100.0].
NewScore(old, outcome, contractorReputation) ==
    Clamp(IF outcome = "SUCCESS"
          THEN old + (Weight * contractorReputation * Scale) \div 100
          ELSE old - (PenaltyTimesScale * 3) \div 2)

\* One reputation update of the agent.
UpdateReputation(outcome, contractorReputation) ==
    /\ score' = NewScore(score, outcome, contractorReputation)
    /\ UNCHANGED <<studioVars, transfers, directory, discoverCall, user, hire,
                   btnDisabled, retryShown, lastJobParams, jobSeq, balance,
                   txlog, repUpdates, jobHistory, dispatched, stateBalance,
                   connected, refreshing, recent, auditCall>>

(* ---------------------- portal app: the hire dialog -------------------- *)

Hires == {"h1", "h2"}

\* Rows of the `agents` table while the hire dialog is used.
HireDirectory ==
    << [id |-> "ag3", name |-> <<"Weather">>, owner_id |-> "owner1",
        endpoint |-> "https://weather", skill |-> "weather",
        reputation_score |-> 60, cost_per_call |-> 5],
       [id |-> "ag4", name |-> <<"News">>, owner_id |-> "owner2",
        endpoint |-> "https://silent", skill |-> "news",
        reputation_score |-> 40, cost_per_call |-> 5] >>

\* Endpoints that accept the request and never answer it.
SilentEndpoints == {"https://silent"}

\* Skills that #hire-skill or detectBestSkill may yield.
HireSkills == {"weather", "news"}

\* Text typed into #hire-input, trimmed.
HireTexts == {"", "clima hoy"}

\* parseFloat(#hire-budget.value) || 100
HireBudgets == {100}

\* fallbackEndpoints[skill] || fallbackEndpoints['research']
FallbackEndpoint(skill) ==
    IF skill = "weather" THEN "https://chorus-ruddy.vercel.app/api/weather"
    ELSE IF skill = "news" THEN "https://chorus-ruddy.vercel.app/api/news"
    ELSE IF skill = "translate" THEN "https://chorus-ruddy.vercel.app/api/translate"
    ELSE "https://chorus-ruddy.vercel.app/api/wiki"

\* A Job Result with status SUCCESS; has_cost is FALSE when the answer
\* carries no execution_cost.
HireSuccess(jobId, cost, hasCost) ==
    [isObject |-> TRUE, status |-> "SUCCESS", output_data |-> <<"report">>,
     execution_cost |-> cost, has_cost |-> hasCost, error_message |-> Null,
     job_id |-> jobId]

HireBodies(jobId) ==
    {HireSuccess(jobId, 5, TRUE), HireSuccess(jobId, 0, TRUE),
     HireSuccess(jobId, 0, FALSE), FailureBody("agent error"), NullBody}

\* What fetch() and response.json() may do for the request `jobId`.
HireNetOutcomes(jobId) ==
    {[kind |-> "reject", ok |-> FALSE, parses |-> FALSE, body |-> NullBody]}
    \cup {[kind |-> "http", ok |-> TRUE, parses |-> TRUE, body |-> b] :
             b \in HireBodies(jobId)}

\* result && result.status === 'SUCCESS'
IsSuccess(result) == result.isObject /\ result.status = "SUCCESS"

\* A guard that lets a cost of 0 through.
CostNotNegative(result) == result.execution_cost >= 0

\* result.execution_cost > 0 (false for a missing execution_cost)
CostAboveZero(result) == result.has_cost /\ result.execution_cost > 0

\* No API.transfer call was made.
NotCalled == [success |-> FALSE, error |-> "not called"]

\* lastJobParams = null
NoJobParams ==
    [skill |-> Null, inputData |-> Undefined, endpoint |-> Null, agentOwner |-> ""]

\* executeHireJob has not called API.sendJob yet.
NothingDispatched ==
    [endpoint |-> Null, skill |-> Null, inputData |-> Undefined, budget |-> 0]

\* No API.discover call was made yet.
NothingFound ==
    [skill |-> Null, minRep |-> 0, dbError |-> FALSE,
     result |-> [agents |-> <<>>, total |-> 0], called |-> FALSE]

\* Locals of one executeHireJob / retryLastJob.  `bubble` is the last chat
\* bubble the execution added, `paid` what API.transfer returned to it.
IdleHire ==
    [pc |-> "idle", kind |-> "hire", skill |-> Null, inputData |-> Undefined,
     budget |-> 0, endpoint |-> Null, agentOwner |-> "", jobId |-> 0, result |-> NullBody,
     bubble |-> "none", paid |-> NotCalled, seen |-> 0]

HireEnded == {"idle", "done", "rejected"}

HireAwaiting == {"discover", "getSession", "fetch", "transfer"}

\* A new execution takes the first free slot.
FreeHire(h) ==
    /\ hire[h].pc \in HireEnded
    /\ (h = "h2" => hire["h1"].pc \notin HireEnded)

\* Execution `h` starts with locals `rec`; the locals of the executions
\* that have returned are gone.
Started(h, rec) ==
    [k \in Hires |-> IF k = h THEN rec
                     ELSE IF hire[k].pc \in HireEnded THEN IdleHire
                     ELSE hire[k]]

\* Pages with a refresh that reads the ledger.
Pages == {"dashboard", "wallet"}

\* #recent-transactions before the first refreshDashboard has rendered it.
NothingRendered == [rendered |-> FALSE, txns |-> <<>>, list |-> <<>>]

\* No API.getAudit call was made yet.
NoAudit == [called |-> FALSE, limit |-> 0, dbError |-> FALSE, transactions |-> <<>>]

\* State of the portal after the page is loaded and the user is logged in,
\* but for jobHistory, which is read from localStorage, and the rows of the
\* transactions table.
DialogInit ==
    /\ discoverCall = NothingFound
    /\ user = "u1"
    /\ hire = [h \in Hires |-> IdleHire]
    /\ btnDisabled = FALSE
    /\ retryShown = FALSE
    /\ lastJobParams = NoJobParams
    /\ jobSeq = 0
    /\ balance = InitialBalance
    /\ repUpdates = <<>>
    /\ score = NewAgentScore
    /\ dispatched = NothingDispatched
    /\ stateBalance = InitialBalance["u1"]
    /\ connected = TRUE
    /\ refreshing = [p \in Pages |-> 0]
    /\ recent = NothingRendered
    /\ auditCall = NoAudit

\* The portal on a browser whose localStorage holds no job history.
PortalInit ==
    /\ DialogInit
    /\ jobHistory = <<>>
    /\ txlog = <<>>

\* The cap of line 1068.
HistoryCap == 50

\* jobRecord of lines 1057-1066: its id and query (skill, agentName, result,
\* cost, timestamp and rating are read by no operation modelled here).
JobRecord(rec, result) ==
    [id |-> result.job_id, query |-> rec.inputData[2]]

\* An unshift without the cap.
UnshiftUncapped(history, record) == <<record>> \o history

\* jobHistory.unshift(jobRecord); if (jobHistory.length > 50) jobHistory =
\* jobHistory.slice(0, 50)
Unshift(history, record) ==
    LET longer == <<record>> \o history
    IN IF Len(longer) > HistoryCap THEN SubSeq(longer, 1, HistoryCap) ELSE longer

\* What the hire actions leave alone.
hireFrame == <<studioVars, directory, discoverCall, repUpdates, score,
               stateBalance, connected, refreshing, recent, auditCall>>

\* executeHireJob up to `await API.discover(skill)`; `via` is the click on
\* #btn-send-job (not delivered while the button is disabled) or the Enter
\* key in #hire-input.
ExecuteHireJob(h, via, text, skill, budget) ==
    /\ FreeHire(h)
    /\ user # Null
    /\ jobSeq < MaxJobs
    /\ via = "click" => ~btnDisabled
    /\ text # ""
    /\ hire' = Started(h, [IdleHire EXCEPT !.pc = "discover",
                                            !.skill = skill,
                                            !.inputData = <<"topic", text>>,
                                            !.budget = budget,
                                            !.bubble = "searching"])
    /\ btnDisabled' = TRUE
    /\ UNCHANGED <<hireFrame, transfers, user, retryShown, lastJobParams,
                   jobSeq, balance, txlog, jobHistory, dispatched>>

\* API.discover(skill) resolves: pick the agent or the fallback endpoint,
\* save lastJobParams, call API.sendJob, which awaits getSession.
HireDiscoverReturn(h, dbError) ==
    LET rec        == hire[h]
        discovered == discover(directory, rec.skill, 0, dbError)
        hasAgent   == Len(discovered.agents) > 0
        endpoint   == IF hasAgent THEN discovered.agents[1].api_endpoint
                      ELSE FallbackEndpoint(rec.skill)
        agentOwner == IF hasAgent THEN discovered.agents[1].owner_id ELSE ""
    IN /\ rec.pc = "discover"
       /\ rec.kind = "hire"
       /\ lastJobParams' = [skill |-> rec.skill, inputData |-> rec.inputData,
                            endpoint |-> endpoint, agentOwner |-> agentOwner]
       /\ hire' = [hire EXCEPT ![h] = [rec EXCEPT !.pc = "getSession",
                                                  !.endpoint = endpoint,
                                                  !.agentOwner = agentOwner]]
       /\ dispatched' = [endpoint |-> endpoint, skill |-> rec.skill,
                         inputData |-> rec.inputData, budget |-> rec.budget]
       /\ UNCHANGED <<hireFrame, transfers, user, btnDisabled, retryShown,
                      jobSeq, balance, txlog, jobHistory>>

\* A retry that sends the budget of the job it repeats.
RetryLastJobWithBudget(h) ==
    /\ FreeHire(h)
    /\ retryShown
    /\ lastJobParams # NoJobParams
    /\ jobSeq < MaxJobs
    /\ hire' = Started(h, [IdleHire EXCEPT !.pc = "getSession",
                                            !.kind = "retry",
                                            !.skill = lastJobParams.skill,
                                            !.inputData = lastJobParams.inputData,
                                            !.endpoint = lastJobParams.endpoint,
                                            !.budget = dispatched.budget,
                                            !.bubble = "retrying"])
    /\ btnDisabled' = TRUE
    /\ UNCHANGED <<hireFrame, transfers, user, retryShown, lastJobParams,
                   jobSeq, balance, txlog, jobHistory, dispatched>>

\* retryLastJob up to the getSession inside API.sendJob.
RetryLastJob(h) ==
    /\ FreeHire(h)
    /\ retryShown
    /\ lastJobParams # NoJobParams
    /\ jobSeq < MaxJobs
    /\ hire' = Started(h, [IdleHire EXCEPT !.pc = "getSession",
                                            !.kind = "retry",
                                            !.skill = lastJobParams.skill,
                                            !.inputData = lastJobParams.inputData,
                                            !.endpoint = lastJobParams.endpoint,
                                            !.budget = 0,
                                            !.bubble = "retrying"])
    /\ btnDisabled' = TRUE
    /\ UNCHANGED <<hireFrame, transfers, user, retryShown, lastJobParams,
                   jobSeq, balance, txlog, jobHistory, dispatched>>

\* A dispatch that reserves the budget on the ledger when it posts the job.
HireSessionReturnPays(h, sess) ==
    LET rec == hire[h]
    IN /\ rec.pc = "getSession"
       /\ sess # "throws"
       /\ jobSeq' = jobSeq + 1
       /\ hire' = [hire EXCEPT ![h] = [rec EXCEPT !.pc = "fetch",
                                                  !.jobId = jobSeq + 1]]
       /\ transfers' = Append(transfers,
                              [hire |-> h, from |-> user, to |-> rec.agentOwner,
                               amount |-> rec.budget, job_id |-> jobSeq + 1])
       /\ UNCHANGED <<hireFrame, user, btnDisabled, retryShown, lastJobParams,
                      balance, txlog, jobHistory, dispatched>>

\* getSession settles inside sendJob: the request is posted, or sendJob
\* rejects.  executeHireJob catches the rejection; retryLastJob does not.
HireSessionReturn(h, sess) ==
    LET rec == hire[h]
        net == CHOOSE n \in HireNetOutcomes(0) : TRUE
    IN /\ rec.pc = "getSession"
       /\ IF sendJob(sess, net).kind = "threw"
          THEN /\ hire' = [hire EXCEPT ![h] =
                             [rec EXCEPT !.pc = "rejected",
                                         !.bubble = IF rec.kind = "hire"
                                                    THEN "connection error"
                                                    ELSE rec.bubble]]
               /\ btnDisabled' = IF rec.kind = "hire" THEN FALSE ELSE btnDisabled
               /\ UNCHANGED jobSeq
          ELSE /\ jobSeq' = jobSeq + 1
               /\ hire' = [hire EXCEPT ![h] = [rec EXCEPT !.pc = "fetch",
                                                          !.jobId = jobSeq + 1]]
               /\ UNCHANGED btnDisabled
       /\ UNCHANGED <<hireFrame, transfers, user, retryShown, lastJobParams,
                      balance, txlog, jobHistory, dispatched>>

\* The request API.transfer posts for the job of `rec`.
TransferOf(h, rec, result) ==
    [hire |-> h, from |-> user, to |-> rec.agentOwner,
     amount |-> result.execution_cost, job_id |-> result.job_id]

\* The fetch settles and sendJob returns its result to executeHireJob or
\* retryLastJob: up to `await API.transfer(...)`, or to the end.
HireFetchReturn(h, net) ==
    LET rec    == hire[h]
        result == sendJob("session", net).value
        pays   == /\ rec.kind = "hire"
                  /\ IsSuccess(result)
                  /\ user # Null
                  /\ rec.agentOwner # ""
                  /\ CostAboveZero(result)
    IN /\ rec.pc = "fetch"
       /\ rec.endpoint \notin SilentEndpoints
       /\ net \in HireNetOutcomes(rec.jobId)
       /\ IF pays
          THEN /\ transfers' = Append(transfers, TransferOf(h, rec, result))
               /\ hire' = [hire EXCEPT ![h] =
                             [rec EXCEPT !.pc = "transfer",
                                         !.result = result,
                                         !.seen = balance[user]]]
               /\ UNCHANGED <<btnDisabled, retryShown, jobHistory>>
          ELSE /\ hire' = [hire EXCEPT ![h] =
                             [rec EXCEPT !.pc = "done",
                                         !.result = result,
                                         !.bubble = IF IsSuccess(result)
                                                    THEN "report" ELSE "error"]]
               /\ retryShown' = (retryShown \/ IsSuccess(result) \/ rec.kind = "hire")
               /\ jobHistory' = IF rec.kind = "hire" /\ IsSuccess(result)
                                 THEN Unshift(jobHistory, JobRecord(rec, result))
                                 ELSE jobHistory
               /\ btnDisabled' = FALSE
               /\ UNCHANGED transfers
       /\ UNCHANGED <<hireFrame, user, lastJobParams, jobSeq, balance, txlog,
                      dispatched>>

\* The rpc behind API.transfer settles; executeHireJob ignores what
\* API.transfer returns and shows the report.
HireTransferReturn(h, rpc) ==
    LET rec == hire[h]
        t   == CHOOSE x \in Range(transfers) :
                   x.hire = h /\ x.job_id = rec.result.job_id
        db  == transfer_credits(balance, txlog, rec.seen, t.from, t.to,
                                t.amount, t.job_id)
        ret == IF rpc = "executed" THEN transfer(db.error)
               ELSE transfer("Failed to fetch")
    IN /\ rec.pc = "transfer"
       /\ balance' = IF rpc = "executed" THEN db.balance ELSE balance
       /\ txlog' = IF rpc = "executed" THEN db.log ELSE txlog
       /\ hire' = [hire EXCEPT ![h] = [rec EXCEPT !.pc = "done",
                                                  !.paid = ret,
                                                  !.bubble = "report"]]
       /\ jobHistory' = Unshift(jobHistory, JobRecord(rec, rec.result))
       /\ retryShown' = TRUE
       /\ btnDisabled' = FALSE
       /\ UNCHANGED <<hireFrame, transfers, user, lastJobParams, jobSeq, dispatched>>

\* What the session actions leave alone.
sessionFrame ==
    <<studioVars, directory, discoverCall, repUpdates, score, transfers, hire,
      btnDisabled, retryShown, lastJobParams, jobSeq, balance, txlog, jobHistory,
      dispatched>>

\* Click on #btn-logout, after `await API.logout()`.
Logout ==
    /\ user # Null
    /\ user' = Null
    /\ stateBalance' = 0
    /\ connected' = FALSE
    /\ UNCHANGED <<sessionFrame, refreshing, recent, auditCall>>

\* refreshDashboard / refreshWallet up to their `await Promise.all(...)`.
StartRefresh(page, u) ==
    IF u = Null
    THEN refreshing
    ELSE [refreshing EXCEPT ![page] = @ + 1]

\* loginUserSuccess(user, name) up to the await inside refreshDashboard.
LoginUserSuccess ==
    /\ user = Null
    /\ refreshing["dashboard"] < MaxPending
    /\ user' = "u1"
    /\ connected' = TRUE
    /\ refreshing' = StartRefresh("dashboard", "u1")
    /\ UNCHANGED <<sessionFrame, stateBalance, recent, auditCall>>

\* navigateTo(page) for the dashboard and the wallet.
NavigateTo(page) ==
    /\ refreshing[page] < MaxPending
    /\ refreshing' = StartRefresh(page, user)
    /\ UNCHANGED <<sessionFrame, user, stateBalance, connected, recent, auditCall>>

\* API.getBalance: `data?.balance || 0`; `failed` is a query error.
getBalance(bal, ownerId, failed) == IF failed THEN 0 ELSE bal[ownerId]

\* Default of the `limit` parameter of API.getAudit.
AuditLimit == 50

\* API.getAudit(ownerId, limit): the rows of `transactions` by created_at
\* descending, the first `limit` of them; `table` is in order of creation
\* and a row's position stands for its created_at.
getAudit(table, limit, dbError) ==
    IF dbError
    THEN <<>>
    ELSE LET n == IF Len(table) < limit THEN Len(table) ELSE limit
         IN [i \in 1..n |->
               LET t == table[Len(table) + 1 - i]
               IN [from_owner |-> t.from_account_id, to_owner |-> t.to_account_id,
                   amount |-> t.amount, job_id |-> t.job_id,
                   timestamp |-> Len(table) + 1 - i]]

\* Rows the dashboard list shows.
RecentCount == 6

\* txns.slice(-6).reverse()
RecentTransactions(txns) ==
    LET n     == IF Len(txns) < RecentCount THEN Len(txns) ELSE RecentCount
        slice == SubSeq(txns, Len(txns) - n + 1, Len(txns))
    IN [i \in 1..n |-> slice[n + 1 - i]]

\* The Promise.all of refreshDashboard / refreshWallet settles: the rest of
\* the function.
RefreshReturn(page, balanceFailed, auditFailed) ==
    LET bal  == getBalance(balance, "u1", balanceFailed)
        txns == getAudit(txlog, AuditLimit, auditFailed)
    IN /\ refreshing[page] > 0
       /\ refreshing' = [refreshing EXCEPT ![page] = @ - 1]
       /\ stateBalance' = bal
       /\ auditCall' = [called |-> TRUE, limit |-> AuditLimit,
                        dbError |-> auditFailed, transactions |-> txns]
       /\ recent' = IF page = "dashboard"
                    THEN [rendered |-> TRUE, txns |-> txns,
                          list |-> RecentTransactions(txns)]
                    ELSE recent
       /\ UNCHANGED <<sessionFrame, user, connected>>

\* One API.getAudit(ownerId, limit) call.
GetAudit(limit, dbError) ==
    /\ auditCall' = [called |-> TRUE, limit |-> limit, dbError |-> dbError,
                     transactions |-> getAudit(txlog, limit, dbError)]
    /\ UNCHANGED <<sessionFrame, user, stateBalance, connected, refreshing, recent>>

\* One API.discover(skill, minRep) call on the directory.
Discover(skill, minRep, dbError) ==
    /\ discoverCall' = [skill |-> skill, minRep |-> minRep, dbError |-> dbError,
                 result |-> discover(directory, skill, minRep, dbError),
                 called |-> TRUE]
    /\ UNCHANGED <<studioVars, transfers, directory, user, hire, btnDisabled,
                   retryShown, lastJobParams, jobSeq, balance, txlog,
                   repUpdates, score, jobHistory, dispatched, stateBalance,
                   connected, refreshing, recent, auditCall>>

(* --------------------------- specification ----------------------------- *)

InitNodes ==
    << [id |-> "a", label |-> LabelA, status |-> Null],
       [id |-> "b", label |-> LabelB, status |-> Null] >>

InitConnections == << [from |-> "a", to |-> "b"] >>

\* State after studio.init().
Init ==
    /\ nodes = InitNodes
    /\ connections = InitConnections
    /\ wiringState = Null
    /\ nodeIdBound \in BOOLEAN
    /\ steps = {}
    /\ finalOutput = Blank
    /\ run = [r \in Runs |-> IdleRun]
    /\ inflight = <<>>
    /\ transfers = <<>>
    /\ directory = AgentsTable
    /\ PortalInit

\* A promise or timer the execution `r` awaits settles.
RunStep(r) ==
    \/ \E dbError \in BOOLEAN : DiscoverReturn(r, dbError)
    \/ \E sess \in SessionOutcomes : SessionReturn(r, sess)
    \/ \E net \in NetOutcomes(run[r].currentNode) : FetchReturn(r, net)
    \/ DelayReturn(r)

\* The studio with its editor and one execution of the pipeline at a time.
Next ==
    \/ \E raw \in RawInputs : ExecutePipeline("r1", raw)
    \/ \E dbError \in BOOLEAN : DiscoverReturn("r1", dbError)
    \/ \E sess \in SessionOutcomes : SessionReturn("r1", sess)
    \/ \E net \in NetOutcomes(run["r1"].currentNode) : FetchReturn("r1", net)
    \/ DelayReturn("r1")
    \/ \E id \in NodeIds : HandleMouseDown(id)
    \/ \E target \in NodeIds \cup {Null} : HandleMouseUp(target)
    \/ \E id \in NodeIds, label \in PaletteLabels : HandleDrop(id, label)

Spec == Init /\ [][Next]_vars

\* Promises settle and timers fire: an awaiting execution is resumed.
FairSpec == Spec /\ WF_vars(RunStep("r1"))

\* Graphs the editor can build from the initial one (each is reached in Spec).
NodeC == [id |-> "c", label |-> <<"Echo", "Bot">>, status |-> Null]

AuthoredGraphs ==
    { [nodes |-> InitNodes, connections |-> InitConnections],
      [nodes |-> Append(InitNodes, NodeC),
       connections |-> Append(InitConnections, [from |-> "b", to |-> "c"])],
      [nodes |-> Append(InitNodes, NodeC), connections |-> InitConnections] }

InitOverlap ==
    /\ \E g \in AuthoredGraphs : nodes = g.nodes /\ connections = g.connections
    /\ wiringState = Null
    /\ nodeIdBound \in BOOLEAN
    /\ steps = {}
    /\ finalOutput = Blank
    /\ run = [r \in Runs |-> IdleRun]
    /\ inflight = <<>>
    /\ transfers = <<>>
    /\ directory = AgentsTable
    /\ PortalInit

\* Executions of the pipeline that may overlap, on a graph left alone.
NextOverlap ==
    \/ \E r \in Runs, raw \in RawInputs : ExecutePipeline(r, raw)
    \/ \E r \in Runs, dbError \in BOOLEAN : DiscoverReturn(r, dbError)
    \/ \E r \in Runs, sess \in SessionOutcomes : SessionReturn(r, sess)
    \/ \E r \in Runs : \E net \in NetOutcomes(run[r].currentNode) : FetchReturn(r, net)
    \/ \E r \in Runs : DelayReturn(r)

SpecOverlap == InitOverlap /\ [][NextOverlap]_vars

(* ----------------------- portal: specifications ------------------------ *)

\* A promise the hire execution `h` awaits settles.
HireStep(h) ==
    \/ \E dbError \in BOOLEAN : HireDiscoverReturn(h, dbError)
    \/ \E sess \in SessionOutcomes : HireSessionReturn(h, sess)
    \/ \E net \in HireNetOutcomes(hire[h].jobId) : HireFetchReturn(h, net)
    \/ \E rpc \in RpcOutcomes : HireTransferReturn(h, rpc)

StudioAtRest ==
    /\ nodes = InitNodes
    /\ connections = InitConnections
    /\ wiringState = Null
    /\ nodeIdBound = TRUE
    /\ steps = {}
    /\ finalOutput = Blank
    /\ run = [r \in Runs |-> IdleRun]
    /\ inflight = <<>>
    /\ transfers = <<>>

InitHire ==
    /\ StudioAtRest
    /\ directory = HireDirectory
    /\ PortalInit

\* The hire dialog of a logged-in user, who may log out while jobs are on
\* their way.
NextHire ==
    \/ \E h \in Hires, via \in {"click", "enter"}, text \in HireTexts,
          skill \in HireSkills, budget \in HireBudgets :
              ExecuteHireJob(h, via, text, skill, budget)
    \/ \E h \in Hires : RetryLastJob(h)
    \/ \E h \in Hires, dbError \in BOOLEAN : HireDiscoverReturn(h, dbError)
    \/ \E h \in Hires, sess \in SessionOutcomes : HireSessionReturn(h, sess)
    \/ \E h \in Hires : \E net \in HireNetOutcomes(hire[h].jobId) : HireFetchReturn(h, net)
    \/ \E h \in Hires, rpc \in RpcOutcomes : HireTransferReturn(h, rpc)
    \/ Logout

SpecHire == InitHire /\ [][NextHire]_vars

\* Every promise that can settle does.
FairHire == SpecHire /\ \A h \in Hires : WF_vars(HireStep(h))

\* Job histories a browser's localStorage may hold: none, and one and no
\* record short of the cap.
StoredRecord(k) == [id |-> 0 - k, query |-> "clima ayer"]

StoredHistories ==
    {[k \in 1..n |-> StoredRecord(k)] : n \in {0, HistoryCap - 1, HistoryCap}}

\* Budgets typed into #hire-budget.
SoloBudgets == {3, 100}

InitSolo ==
    /\ StudioAtRest
    /\ directory = HireDirectory
    /\ DialogInit
    /\ jobHistory \in StoredHistories
    /\ txlog = <<>>

\* The hire dialog used for one job at a time.
NextSolo ==
    \/ \E via \in {"click", "enter"}, text \in HireTexts, skill \in HireSkills,
          budget \in SoloBudgets : ExecuteHireJob("h1", via, text, skill, budget)
    \/ RetryLastJob("h1")
    \/ HireStep("h1")

SpecSolo == InitSolo /\ [][NextSolo]_vars

\* Rows the transactions table may hold when the portal opens: row k is the
\* k-th transfer that was executed.
StoredRow(k) ==
    [from_account_id |-> IF k % 2 = 0 THEN "u1" ELSE "owner1",
     to_account_id |-> IF k % 2 = 0 THEN "owner1" ELSE "u1",
     amount |-> 1, job_id |-> 0 - k]

StoredLogs ==
    {[k \in 1..n |-> StoredRow(k)] : n \in {0, 2, RecentCount + 1, AuditLimit + 1}}

InitSession ==
    /\ StudioAtRest
    /\ directory = HireDirectory
    /\ DialogInit
    /\ jobHistory = <<>>
    /\ txlog \in StoredLogs

\* Login, logout and the pages that show the ledger.
NextSession ==
    \/ Logout
    \/ LoginUserSuccess
    \/ \E page \in Pages : NavigateTo(page)
    \/ \E page \in Pages, balanceFailed \in BOOLEAN, auditFailed \in BOOLEAN :
          RefreshReturn(page, balanceFailed, auditFailed)
    \/ \E limit \in {1, 2, AuditLimit}, dbError \in BOOLEAN : GetAudit(limit, dbError)

SpecSession == InitSession /\ [][NextSession]_vars

\* Directories of at most MaxAgents rows.
DirectoryRows ==
    {[id |-> "ag", name |-> <<"Agent">>, owner_id |-> "owner1",
      endpoint |-> "https://agent1", skill |-> s, reputation_score |-> r,
      cost_per_call |-> 5] : s \in {"weather", "news"}, r \in {40, 60, 80}}

Directories ==
    UNION {[1..n -> DirectoryRows] : n \in 0..MaxAgents}

InitDiscover ==
    /\ StudioAtRest
    /\ directory \in Directories
    /\ PortalInit

NextDiscover ==
    \E skill \in {Null, "", "weather", "poetry"}, minRep \in {0, 60, 61},
       dbError \in BOOLEAN : Discover(skill, minRep, dbError)

SpecDiscover == InitDiscover /\ [][NextDiscover]_vars

InitReputation ==
    /\ StudioAtRest
    /\ directory = HireDirectory
    /\ PortalInit
    /\ score \in InitialScores

NextReputation ==
    \E outcome \in {"SUCCESS", "FAILURE"}, c \in ContractorReputations :
        UpdateReputation(outcome, c)

SpecReputation == InitReputation /\ [][NextReputation]_vars

(* ------------------------------ properties ----------------------------- *)

Last(tr) == tr[Len(tr)]

JobsOf(r) == SelectSeq(inflight, LAMBDA j : j.run = r)

\* seq lists every node once and the connections are exactly seq[i] -> seq[i+1].
IsChainOrder(ns, conns, seq) ==
    /\ Len(seq) = Len(ns)
    /\ Range(seq) = NodeIdsOf(ns)
    /\ Len(conns) = Len(seq) - 1
    /\ \A i \in 1..(Len(seq) - 1) :
           \E k \in DOMAIN conns : conns[k] = [from |-> seq[i], to |-> seq[i + 1]]

ChainOrders(ns, conns) ==
    {seq \in [1..Len(ns) -> NodeIdsOf(ns)] : IsChainOrder(ns, conns, seq)}

AllSucceeded(tr) == \A i \in DOMAIN tr : tr[i].outcome = "SUCCESS"

\* C1: on a graph that is a simple chain n1 -> ... -> nk, an execution in
\* which every job succeeds sends exactly one job per node in chain order,
\* the first with the run's external input, each later one with the
\* output_data of the job before it, and ends with the output of nk's job.
\* (Stated for pages on which render() returns; where drawNode's `nodeId`
\* is unbound the execution dies in resetExecutionState and sends nothing.)
C1_ChainExecutes ==
    \A r \in Runs : \A seq \in ChainOrders(nodes, connections) :
        (/\ nodeIdBound
         /\ run[r].pc \in {"succeeded", "failed"}
         /\ AllSucceeded(run[r].trace))
        => /\ run[r].pc = "succeeded"
           /\ Len(run[r].trace) = Len(seq)
           /\ \A i \in DOMAIN seq :
                 /\ run[r].trace[i].node = seq[i]
                 /\ run[r].trace[i].sent
                 /\ run[r].trace[i].input =
                        IF i = 1 THEN run[r].inputData
                        ELSE run[r].trace[i - 1].output
           /\ run[r].currentInput = Last(run[r].trace).output

\* A sendJob call of r settles in this step with something else than SUCCESS.
FailsNow(r) ==
    /\ run[r].pc \in Awaiting
    /\ run'[r].trace # run[r].trace
    /\ Len(run'[r].trace) > 0
    /\ Last(run'[r].trace).outcome \in {"FAILURE", "INVALID", "THREW"}

\* C2: once the job of a node returns a non-SUCCESS result, or its dispatch
\* throws, the node is marked FAILED, the run ends FAILED, and that run
\* sends no further job.
C2_FailFast ==
    [][\A r \in Runs :
          /\ FailsNow(r) =>
                /\ run'[r].pc = "failed"
                /\ StatusOf(nodes', run[r].currentNode) = "error"
                /\ Len(JobsOf(r)') = 0
          /\ run[r].pc = "failed" =>
                \/ run'[r] = run[r] /\ Len(JobsOf(r)') = 0
                \/ run'[r].trace = <<>> /\ Len(JobsOf(r)') = 0]_vars

\* A run failed at its first node although a later node is connected to it.
C2_Witness ==
    \E r \in Runs :
        /\ run[r].pc = "failed"
        /\ Len(run[r].trace) = 1
        /\ run[r].trace[1].outcome = "FAILURE"
        /\ StatusOf(nodes, run[r].currentNode) = "error"
        /\ NextNode(nodes, connections, run[r].currentNode) # Null

\* Nodes without an incoming connection.
Roots(ns, conns) == {n \in NodeIdsOf(ns) : ~HasIncoming(conns, n)}

Sent(tr) == \E i \in DOMAIN tr : tr[i].sent

\* C3: a graph with two or more nodes without an incoming connection is
\* rejected with a graph error, so no job of an execution started on such a
\* graph is ever sent.
C3_MultiRootRejected ==
    \A r \in Runs :
        Cardinality(Roots(run[r].nodes0, run[r].connections0)) >= 2
        => ~Sent(run[r].trace)

\* Some node has more than one outgoing connection.
HasFork(conns) ==
    \E i, j \in DOMAIN conns : i # j /\ conns[i].from = conns[j].from

RECURSIVE ReachFrom(_, _, _)
ReachFrom(conns, S, k) ==
    IF k = 0
    THEN S
    ELSE ReachFrom(conns,
                   S \cup {conns[i].to : i \in {j \in DOMAIN conns : conns[j].from \in S}},
                   k - 1)

\* Some node is reachable from itself.
HasCycle(conns) ==
    \E i \in DOMAIN conns :
        conns[i].from \in ReachFrom(conns, {conns[i].to}, Len(conns))

\* C4: a graph with a node that has several outgoing connections, or with a
\* cycle, is rejected at validation: no job of an execution started on such
\* a graph is ever sent.
C4_RicherTopologyRejected ==
    \A r \in Runs :
        (HasFork(run[r].connections0) \/ HasCycle(run[r].connections0))
        => ~Sent(run[r].trace)

\* C5: every execution that started comes to an end, SUCCEEDED or FAILED, on
\* every graph the editor can build, given that every promise it awaits
\* settles.
C5_RunTerminates ==
    (run["r1"].pc \in Awaiting) ~> (run["r1"].pc \in {"succeeded", "failed"})

\* C6: for every node whose job came back SUCCESS with execution_cost > 0, a
\* ledger transfer of that amount has been ordered by the time the executor
\* moves on.
C6_PipelineSettles ==
    \A r \in Runs : \A i \in DOMAIN run[r].trace :
        (run[r].trace[i].outcome = "SUCCESS" /\ run[r].trace[i].cost > 0)
        => \E k \in DOMAIN transfers : transfers[k].amount = run[r].trace[i].cost

\* C7: within one execution at most one job is outstanding, and only while
\* the execution is suspended on it.
C7_OneJobAtATime ==
    \A r \in Runs :
        /\ Len(JobsOf(r)) <= 1
        /\ Len(JobsOf(r)) = 1 => run[r].pc = "fetch"

\* The job of a second node is outstanding after the first came back.
C7_Witness ==
    \E r \in Runs :
        /\ Len(run[r].trace) = 2
        /\ run[r].trace[1].outcome = "SUCCESS"
        /\ Len(JobsOf(r)) = 1
        /\ JobsOf(r)[1].node = run[r].trace[2].node

\* Nodes an execution has marked so far.
TouchedBy(q) ==
    ({run[q].currentNode} \cup {run[q].trace[i].node : i \in DOMAIN run[q].trace})
        \ {Null}

\* C8: a step of one execution changes neither the statuses of the nodes
\* another, still running, execution has marked nor the step elements that
\* report its progress.
C8_RunsIsolated ==
    [][\A r, q \in Runs :
          (r # q /\ run'[r] # run[r] /\ run'[q] = run[q] /\ run[q].pc \in Awaiting)
          => /\ \A n \in TouchedBy(q) : StatusOf(nodes', n) = StatusOf(nodes, n)
             /\ (steps \cap 1..run[q].stepCount) \subseteq steps']_vars

\* The nodes an execution visits on the graph it started on.
PlanOf(rec) ==
    Walk(rec.nodes0, rec.connections0,
         getStartNode(rec.nodes0, rec.connections0), MaxSteps)

\* C9: the nodes an execution runs are those of the graph as it was when the
\* execution started, whatever the editor does meanwhile.
C9_GraphReadOnce ==
    \A r \in Runs :
        /\ Len(run[r].trace) <= Len(PlanOf(run[r]))
        /\ \A i \in DOMAIN run[r].trace : run[r].trace[i].node = PlanOf(run[r])[i]

\* C10: sendJob never rejects: every call recorded in a trace is pending or
\* came back with a result.
C10_SendJobNeverThrows ==
    \A r \in Runs : \A i \in DOMAIN run[r].trace :
        run[r].trace[i].outcome # "THREW"

\* C11: a job posted to an endpoint that never answers comes back to its
\* caller as a FAILURE once the per-job timeout is over: no execution of the
\* hire dialog stays suspended on its dispatch for ever.
C11_DispatchTimesOut ==
    \A h \in Hires : (hire[h].pc = "fetch") ~> (hire[h].pc # "fetch")

\* A step in which API.sendJob runs for h: from its call to the posting of
\* the request or to its rejection.
DispatchStep(h) == hire[h].pc = "getSession" /\ hire'[h].pc # "getSession"

\* C12: the dispatch itself leaves the ledger and every reputation alone:
\* sendJob orders no transfer and no reputation update, and a transfer is
\* ordered only by the caller, for a result that sendJob has returned.
C12_DispatchFrame ==
    [][/\ \A h \in Hires :
             DispatchStep(h) =>
                 UNCHANGED <<transfers, balance, txlog, repUpdates, score>>
       /\ transfers' # transfers =>
             \E h \in Hires :
                 /\ hire[h].pc = "fetch"
                 /\ hire'[h].pc = "transfer"
                 /\ IsSuccess(hire'[h].result)
                 /\ transfers' = Append(transfers, Last(transfers'))
                 /\ Last(transfers').job_id = hire'[h].result.job_id]_vars

\* A job was posted and answered, and only then did its caller order the
\* transfer, which the ledger has not yet run.
C12_Witness ==
    \E h \in Hires :
        /\ hire[h].pc = "transfer"
        /\ Len(transfers) = 1
        /\ transfers[1].job_id = hire[h].jobId
        /\ txlog = <<>>
        /\ balance = InitialBalance

\* Transfers ordered with the job_id of this result.
TransfersFor(result) ==
    SelectSeq(transfers, LAMBDA t : t.job_id = result.job_id)

\* An executeHireJob that has handled a SUCCESS result with a cost above 0.
PaidJobDone(h) ==
    /\ hire[h].kind = "hire"
    /\ hire[h].pc = "done"
    /\ IsSuccess(hire[h].result)
    /\ CostAboveZero(hire[h].result)

\* C13: for every hire job that an agent of the directory answered with
\* SUCCESS and execution_cost > 0, exactly one transfer has been ordered:
\* from the requester to the agent's owner, of execution_cost, with the
\* job's job_id.
C13_HirePaysOnce ==
    \A h \in Hires :
        (PaidJobDone(h) /\ hire[h].agentOwner # "")
        => /\ Len(TransfersFor(hire[h].result)) = 1
           /\ TransfersFor(hire[h].result)[1].from = "u1"
           /\ TransfersFor(hire[h].result)[1].to = hire[h].agentOwner
           /\ TransfersFor(hire[h].result)[1].amount = hire[h].result.execution_cost

\* C14: no transfer is ordered for a job whose result is not SUCCESS or
\* whose execution_cost is missing or <= 0, and no transfer is ever ordered
\* with an amount <= 0.
C14_NoTransferWithoutCost ==
    /\ \A k \in DOMAIN transfers : transfers[k].amount > 0
    /\ \A h \in Hires :
          (/\ hire[h].pc = "done"
           /\ ~(IsSuccess(hire[h].result) /\ CostAboveZero(hire[h].result)))
          => \A k \in DOMAIN transfers : transfers[k].job_id # hire[h].jobId

\* A logged-in user's job, answered by a directory agent with SUCCESS and
\* no execution_cost, is done and nothing was ordered.
C14_Witness ==
    \E h \in Hires :
        /\ hire[h].kind = "hire"
        /\ hire[h].pc = "done"
        /\ hire[h].agentOwner # ""
        /\ user # Null
        /\ IsSuccess(hire[h].result)
        /\ ~hire[h].result.has_cost
        /\ transfers = <<>>

\* API.transfer was called for the job of h and returned success: false
\* because the sender's credits did not suffice.
PaymentFailed(h) ==
    /\ hire[h].pc = "done"
    /\ ~hire[h].paid.success
    /\ hire[h].paid.error = "InsufficientCredits"

\* C15: when the transfer for a successfully executed job fails, the job's
\* output is still delivered and the user is told about the payment failure:
\* what the hire dialog shows is not the plain report of a paid job.
C15_PaymentFailureReported ==
    \A h \in Hires :
        PaymentFailed(h) => hire[h].bubble \notin {"report", "error", "connection error"}

\* C16: every job that was settled with a transfer has its reputation update:
\* exactly one, applied to the agent that ran the job.
C16_ReputationUpdated ==
    \A h \in Hires :
        (PaidJobDone(h) /\ hire[h].paid.success)
        => Len(SelectSeq(repUpdates, LAMBDA u : u.job_id = hire[h].jobId)) = 1

\* C17: from any score in [0, 100], after any sequence of SUCCESS and
\* FAILURE updates with any contractor_reputation in [0, 100], the score is in
\* [0, 100]; one update raises it by at most 2.0 (SUCCESS) or lowers it by at
\* most 3.0 * 1.5 (FAILURE).
C17_ScoreInRange ==
    /\ [](score \in 0..MaxScore)
    /\ [][/\ score' > score => score' - score <= 2 * Scale
          /\ score' < score => score - score' <= (9 * Scale) \div 2]_score

\* Updates have driven the score to the lower and to the upper bound.
C17_Witness == score \in {0, MaxScore}

\* The transfer the execution h is waiting for.
PendingTransfer(h) ==
    CHOOSE t \in Range(transfers) : t.hire = h /\ t.job_id = hire[h].jobId

\* API.transfer returns to h in this step.
TransferStep(h) == hire[h].pc = "transfer" /\ hire'[h].pc = "done"

C19_NoOverdraft ==
    /\ [](\A o \in Owners : balance[o] >= 0)
    /\ [][\A h \in Hires :
             (TransferStep(h) /\ hire'[h].paid.error # "Failed to fetch")
             => (~hire'[h].paid.success
                    <=> PendingTransfer(h).amount > balance[PendingTransfer(h).from])]_vars

\* Two transfers of u1 were ordered while the balance covered either of them
\* and not both: one went through, the other failed.
C19_Witness ==
    \E h, k \in Hires :
        /\ h # k
        /\ hire[h].pc = "done" /\ hire[h].paid.success
        /\ hire[k].pc = "done" /\ hire[k].paid.error = "InsufficientCredits"
        /\ hire[h].seen = InitialBalance["u1"]
        /\ hire[k].seen = InitialBalance["u1"]

\* Rows of the directory that satisfy the predicate of a discover call.
MatchingRows(call) ==
    {i \in DOMAIN directory :
        /\ directory[i].reputation_score >= call.minRep
        /\ (Truthy(call.skill) => directory[i].skill = call.skill)}

\* C20: discover(skill, minRep) returns exactly the agents whose
\* reputation_score >= minRep and, when a skill is given, whose skill is that
\* skill: none that fails the predicate and, unless the query failed, every
\* one that satisfies it.
C20_DiscoverFilters ==
    discoverCall.called =>
        LET res == discoverCall.result
        IN /\ \A i \in DOMAIN res.agents :
                 /\ res.agents[i].reputation_score >= discoverCall.minRep
                 /\ (Truthy(discoverCall.skill) =>
                        res.agents[i].skills[1].skill_name = discoverCall.skill)
           /\ res.total = Len(res.agents)
           /\ ~discoverCall.dbError =>
                 /\ Len(res.agents) = Cardinality(MatchingRows(discoverCall))
                 /\ \A i \in MatchingRows(discoverCall) :
                       \E k \in DOMAIN res.agents :
                           /\ res.agents[k].api_endpoint = directory[i].endpoint
                           /\ res.agents[k].reputation_score = directory[i].reputation_score
                           /\ res.agents[k].skills[1].skill_name = directory[i].skill

\* discover("weather", 60) on a directory of two agents returned one of them.
C20_Witness ==
    /\ discoverCall.called
    /\ discoverCall.skill = "weather"
    /\ discoverCall.minRep = 60
    /\ ~discoverCall.dbError
    /\ Len(directory) = 2
    /\ Len(discoverCall.result.agents) = 1

\* The rows of the directory whose agent the find of line 239 accepts for a
\* node with this label.
RowsFor(label) ==
    {k \in DOMAIN directory :
        directory[k].name = label \/ Includes(label, directory[k].name)}

\* C21: the endpoint and skill of every job a pipeline execution posts are
\* those of a row of the agent directory that matches the label of the node
\* the job is for; no job goes to an endpoint that is not such a row's.
C21_EndpointFromDirectory ==
    \A i \in DOMAIN inflight :
        \E k \in RowsFor(LabelOf(nodes, inflight[i].node)) :
            /\ inflight[i].endpoint = directory[k].endpoint
            /\ inflight[i].skill_name = directory[k].skill

\* Execution r starts in this step: executePipeline is called.
StartsNow(r) == run[r].pc \in Ended /\ run'[r] # run[r]

\* C22: when no node of the graph is without an incoming connection, the
\* execution is refused before it starts: the call marks no node running,
\* adds no step, posts no job, and the refused execution never sends one.
C22_NoRootRefused ==
    /\ [][\A r \in Runs :
             (StartsNow(r) /\ Roots(nodes, connections) = {})
             => /\ run'[r].pc = "rejected"
                /\ nodes' = nodes
                /\ steps' = steps
                /\ finalOutput' = finalOutput
                /\ inflight' = inflight]_vars
    /\ [](\A r \in Runs :
             (run[r].pc # "idle" /\ Roots(run[r].nodes0, run[r].connections0) = {})
             => /\ run[r].pc = "rejected"
                /\ run[r].trace = <<>>
                /\ Len(JobsOf(r)) = 0)

\* An execution was refused on a graph whose two nodes feed each other.
C22_Witness ==
    \E r \in Runs :
        /\ run[r].pc = "rejected"
        /\ Len(run[r].nodes0) >= 2
        /\ Roots(run[r].nodes0, run[r].connections0) = {}
        /\ HasCycle(run[r].connections0)

\* Statuses a node may take after `s` within one execution.
StatusAfter(s) ==
    CASE s = Null -> {Null, "running"}
      [] s = "running" -> {"running", "success", "error"}
      [] OTHER -> {s}

\* C23: within one execution a node's status only moves pending -> running
\* -> success or error: a node that succeeded or failed is not set running
\* again, no node gets two jobs, and no node is left running when the
\* execution has ended.
C23_NodeLifecycle ==
    /\ [][run["r1"].pc \in Awaiting =>
             \A n \in NodeIdsOf(nodes) :
                 StatusOf(nodes', n) \in StatusAfter(StatusOf(nodes, n))]_vars
    /\ [](\A i, j \in DOMAIN run["r1"].trace :
             (i # j /\ run["r1"].trace[i].sent /\ run["r1"].trace[j].sent)
             => run["r1"].trace[i].node # run["r1"].trace[j].node)
    /\ [](run["r1"].pc \in {"succeeded", "failed"} =>
             \A n \in NodeIdsOf(nodes) : StatusOf(nodes, n) # "running")

\* The first n elements of a sequence, or all of it.
Newest(seq, n) == SubSeq(seq, 1, IF Len(seq) < n THEN Len(seq) ELSE n)

\* Executions of executeHireJob that come to their end in this step with a
\* SUCCESS result.
SucceedsNow ==
    {h \in Hires : /\ hire[h].kind = "hire"
                   /\ hire[h].pc \in HireAwaiting
                   /\ hire'[h].pc = "done"
                   /\ IsSuccess(hire'[h].result)}

C25_TransferWithinBudget ==
    \A h \in Hires : \A i \in DOMAIN transfers :
        (/\ hire[h].pc \in {"transfer", "done"}
         /\ transfers[i].hire = h
         /\ transfers[i].job_id = hire[h].jobId)
        => transfers[i].amount <= hire[h].budget

\* The request of execution h is posted and its result is not yet handled.
InFlight(h) == hire[h].pc \in {"fetch", "transfer"}

\* C26: at most one job of the hire dialog is in flight at a time, whether
\* it was started with the send button, the Enter key or a retry button.
C26_OneHireInFlight ==
    \A h, k \in Hires : (InFlight(h) /\ InFlight(k)) => h = k

\* C27: whenever the send button is disabled it is enabled again later,
\* whatever discovery, dispatch and payment come to.
C27_ButtonReenabled ==
    btnDisabled ~> ~btnDisabled

\* retryLastJob is called in this step and takes slot h.
RetryNow(h) ==
    /\ hire[h].pc \in HireEnded
    /\ hire'[h].pc = "getSession"
    /\ hire'[h].kind = "retry"

\* A step of an execution of retryLastJob after its call.
RetryGoesOn(h) ==
    /\ hire[h].kind = "retry"
    /\ hire[h].pc \in HireAwaiting
    /\ hire'[h] # hire[h]

\* C28: a retry sends the skill, input and endpoint of the hire job that
\* executeHireJob dispatched last (its last API.sendJob call), with budget 0;
\* whatever comes back, it orders no transfer and adds no record to
\* jobHistory; and no retry is sent before a hire job has been dispatched.
C28_RetryIsFree ==
    [][\A h \in Hires :
          /\ RetryNow(h) =>
                /\ dispatched # NothingDispatched
                /\ hire'[h].skill = dispatched.skill
                /\ hire'[h].inputData = dispatched.inputData
                /\ hire'[h].endpoint = dispatched.endpoint
                /\ hire'[h].budget = 0
                /\ transfers' = transfers
                /\ jobHistory' = jobHistory
          /\ RetryGoesOn(h) =>
                /\ hire'[h].budget = 0
                /\ transfers' = transfers
                /\ jobHistory' = jobHistory
                /\ balance' = balance]_vars

\* A retry came back SUCCESS with a cost above zero and has been handled.
C28_Witness ==
    \E h \in Hires :
        /\ hire[h].kind = "retry"
        /\ hire[h].pc = "done"
        /\ IsSuccess(hire[h].result)
        /\ CostAboveZero(hire[h].result)
        /\ hire[h].skill = dispatched.skill
        /\ \A i \in DOMAIN transfers : transfers[i].job_id # hire[h].jobId

\* C29: while nobody is logged in, state.balance is 0 and state.connected
\* is false, also after a refresh that was started before the logout has
\* come back.
C29_LoggedOutIsBlank ==
    user = Null => (stateBalance = 0 /\ connected = FALSE)

\* C30: getAudit returns at most `limit` transactions, the most recent ones,
\* most recent first; and the dashboard's list shows the first (up to) six
\* transactions of the result it was built from, in that order.
C30_RecentTransactions ==
    /\ auditCall.called =>
          LET txns == auditCall.transactions
          IN /\ Len(txns) <= auditCall.limit
             /\ \A i \in DOMAIN txns : txns[i].timestamp = Len(txlog) + 1 - i
             /\ ~auditCall.dbError =>
                   (Len(txns) = auditCall.limit \/ Len(txns) = Len(txlog))
    /\ recent.rendered => recent.list = Newest(recent.txns, RecentCount)

=============================================================================
